---- MODULE Spec2Model ----
(***************************************************************************)
(* State-machine model of the marketsAI environments                       *)
(*   Capital_planner_ma   (src/marketsai/capital_mkts/capital_planner_ma.py)*)
(*   DiffDemandDiscrete   (src/marketsai/markets/diff_demand.py)           *)
(*   Townsend             (src/marketsai/economies/townsend/               *)
(*                         townsend_nested.py)                             *)
(*                                                                         *)
(* One environment instance is constructed (Init) and then driven by its   *)
(* caller through reset() and step(action_dict).                           *)
(*                                                                         *)
(* Numbers.  Python floats are modelled as fixed-point integers with ONE   *)
(* units per 1.0; every product and quotient is rounded down to a unit,    *)
(* which stands for the rounding of finite-precision arithmetic.  Python   *)
(* lists are functions on 0..n-1, so that the source's indices are kept.   *)
(* np.log is kept symbolic: a utility is either LogOf(c) or a number.      *)
(***************************************************************************)
EXTENDS Integers, Sequences, FiniteSets, TLC

VARIABLES
    cfg,     \* the configuration the instance was constructed with
    env,     \* the instance: its attributes
    out,     \* the last call on the instance and what it returned or raised
    nsteps,  \* calls of step() since the last reset(); None before the first
    env2,    \* a second instance of the same configuration (SpecTwin)
    out2,    \* the last call on the second instance
    sync,    \* both instances were reset together and fed the same actions
    rng,     \* the state of the generator of the random module (SpecPair)
    envAlone, \* the first instance as its calls leave it without the second
    rngAlone \* the state of the generator without the second instance

vars == <<cfg, env, out, nsteps, env2, out2, sync, rng, envAlone, rngAlone>>

pairVars == <<rng, envAlone, rngAlone>>

(***************************************************************************)
(* Bounds of the model                                                     *)
(***************************************************************************)
\* calls of step() explored after a reset(); horizons are 1..MaxT-1, so that
\* at least one step past the horizon is explored
MaxT == 3

(***************************************************************************)
(* Fixed-point arithmetic and 0-based lists                                *)
(***************************************************************************)
ONE == 1000

Mul(a, b) == (a * b) \div ONE

Div(a, b) == (a * ONE) \div b

Max(a, b) == IF a >= b THEN a ELSE b

Min(a, b) == IF a <= b THEN a ELSE b

Len0(l) == Cardinality(DOMAIN l)

RECURSIVE SumTo(_, _)
SumTo(l, n) == IF n = 0 THEN 0 ELSE SumTo(l, n - 1) + l[n - 1]

\* np.sum of a list
Sum0(l) == SumTo(l, Len0(l))

Empty0 == [p \in {} |-> 0]

\* the list l with every entry evaluated, once
Eval0(l) == l @@ Empty0

\* a + b for Python lists
Concat0(a, b) ==
    Eval0([p \in 0..(Len0(a) + Len0(b) - 1) |->
             IF p < Len0(a) THEN a[p] ELSE b[p - Len0(a)]])

One0(x) == [p \in {0} |-> x]

\* l[a:b]
Slice0(l, a, b) == [p \in 0..(b - a - 1) |-> l[a + p]]

\* largest r with r * r <= x, by bisection on lo..hi
RECURSIVE ISqrtIn(_, _, _)
ISqrtIn(x, lo, hi) ==
    IF lo >= hi THEN lo
    ELSE LET mid == (lo + hi + 1) \div 2
         IN  IF mid * mid <= x THEN ISqrtIn(x, mid, hi)
             ELSE ISqrtIn(x, lo, mid - 1)

ISqrt(x) == ISqrtIn(x, 0, Min(x, 46340))

\* np.sqrt(x) in fixed point
Sqrt(x) == ISqrt(x * ONE)

\* x ** e, for the exponents that the configurations of the model produce:
\* 1, -1 and 1/2
Pow(x, e) ==
    CASE e = ONE -> x
      [] e = 0 - ONE -> Div(ONE, x)
      [] e = ONE \div 2 -> Sqrt(x)

\* a value that an attribute or a result has when it was never assigned
NoAttr == "unset"

\* self.timestep = None
None == 0 - 1

\* np.log(c), kept symbolic
LogOf(c) == [kind |-> "log", arg |-> c]

\* a plain number among the utilities
Num(v) == [kind |-> "num", arg |-> v]

\* np.mean(l) of a list of utilities, kept symbolic
Mean0(l) == [mean_of |-> l]

(***************************************************************************)
(* Capital_planner_ma: configuration and construction                      *)
(***************************************************************************)
CPName == "Capital_planner_ma"

\* (n_hh, n_capital) of the configurations explored
CPSizes == {<<1, 1>>, <<2, 1>>, <<3, 1>>, <<1, 2>>}

\* max_savings: the default 0.6, and 1.0, with which the savings shares of a
\* household can add up to more than 1
CPMaxSavings == {600, 1000}

\* delta: 0.5, and 1.0, with which nothing of a stock is carried over
CPDeltas == {500, 1000}

\* shock_idtc_transition[0][1]: 0.5, and 1.0, with which the blocks of the
\* idiosyncratic schedule are half as long as those of the aggregate one
CPIdtcSwitch == {500, 1000}

\* (len(shock_idtc_values), len(shock_agg_values)): the default two and two,
\* and three idiosyncratic values with two aggregate ones
CPShockLens == {<<2, 2>>, <<3, 2>>}

\* the configurations explored: with the shocks of a schedule, up to two
\* stocks with every horizon and three households with horizon 1; with
\* random shocks, one household with one capital good, the max_savings
\* with which the budget correction happens and horizon 1 or 2; with full
\* depreciation,
\* eval_mode with horizon 1; with the shorter idiosyncratic blocks,
\* eval_mode with two households and horizon 2; with three idiosyncratic
\* shock values, random shocks with horizon 1
CPExplored(c) ==
    /\ IF c.eval_mode \/ c.analysis_mode
       THEN c.n_hh * c.n_capital <= 2 \/ c.horizon = 1
       ELSE /\ c.n_hh * c.n_capital = 1 /\ c.max_savings = ONE
            /\ c.horizon <= 2
    /\ c.params.delta = ONE =>
          (c.eval_mode /\ ~ c.analysis_mode /\ c.horizon = 1
             /\ c.n_hh * c.n_capital <= 2)
    /\ c.shock_idtc_transition[0][1] = ONE =>
          (c.eval_mode /\ ~ c.analysis_mode /\ c.horizon = 2
             /\ c.n_hh = 2 /\ c.n_capital = 1
             /\ c.params.delta = 500 /\ c.max_savings = 600)
    /\ Len0(c.shock_idtc_values) = 3 =>
          (~ c.eval_mode /\ ~ c.analysis_mode /\ c.horizon = 1
             /\ c.params.delta = 500
             /\ c.shock_idtc_transition[0][1] = 500)

CPAllConfigs ==
    { [ cls |-> CPName,
        horizon |-> h,
        n_hh |-> sz[1],
        n_capital |-> sz[2],
        eval_mode |-> ev,
        analysis_mode |-> an,
        max_savings |-> ms,
        bgt_penalty |-> ONE,
        shock_idtc_values |->
            [x \in 0..(ln[1] - 1) |->
                IF x = 0 THEN 900 ELSE IF x = 1 THEN 1100 ELSE ONE],
        shock_idtc_transition |->
            [r \in 0..(ln[1] - 1) |->
                [x \in 0..(ln[1] - 1) |-> IF x = r THEN ONE - sw ELSE sw]],
        shock_agg_values |->
            [x \in 0..(ln[2] - 1) |-> IF x = 0 THEN 800 ELSE 1200],
        shock_agg_transition |->
            [r \in 0..(ln[2] - 1) |-> [x \in 0..(ln[2] - 1) |-> 500]],
        params |-> [delta |-> d, alpha |-> ONE, phi |-> 500, beta |-> 980] ] :
      h \in 1..(MaxT - 1), sz \in CPSizes, ev \in BOOLEAN, an \in BOOLEAN,
      ms \in CPMaxSavings, d \in CPDeltas, sw \in CPIdtcSwitch,
      ln \in CPShockLens }

CPConfigs == { c \in CPAllConfigs : CPExplored(c) }

\* self.k_ss
KSS(c) ==
    Pow( Mul( Mul(c.params.phi, c.params.delta) * c.n_hh * c.n_capital,
              Div(ONE - Mul(c.params.beta, ONE - c.params.delta),
                  Mul(c.params.alpha, c.params.beta))
              + (c.params.delta * (c.n_capital - 1)) \div c.n_capital ),
         Div(ONE, c.params.alpha - 2 * ONE) )

\* self.max_s_ij
MaxSij(c) == Mul(c.max_savings \div c.n_capital, 1500)

\* t // (1 / transition[0][1])
Block(t, transition) == (t * ONE) \div Div(ONE, transition[0][1])

\* self.shocks_eval_agg
ShocksEvalAgg(c) ==
    [t \in 0..c.horizon |->
        IF t = 0 THEN 0
        ELSE IF (Block(t, c.shock_agg_transition) + 1) % 2 = 0 THEN 1 ELSE 0]

\* ShocksEvalIdtc with the blocks of the aggregate schedule
ShocksEvalIdtcAggBlocks(c) ==
    [t \in 0..c.horizon |->
        IF t = 0 THEN [i \in 0..(c.n_hh - 1) |-> 1 - (i % 2)]
        ELSE IF (Block(t, c.shock_agg_transition) + 1) % 2 = 0
             THEN [i \in 0..(c.n_hh - 1) |-> i % 2]
             ELSE [i \in 0..(c.n_hh - 1) |-> 1 - (i % 2)]]

\* self.shocks_eval_idtc
ShocksEvalIdtc(c) ==
    [t \in 0..c.horizon |->
        IF t = 0 THEN [i \in 0..(c.n_hh - 1) |-> 1 - (i % 2)]
        ELSE IF (Block(t, c.shock_idtc_transition) + 1) % 2 = 0
             THEN [i \in 0..(c.n_hh - 1) |-> i % 2]
             ELSE [i \in 0..(c.n_hh - 1) |-> 1 - (i % 2)]]

\* self.shocks_analysis_agg
ShocksAnalysisAgg(c) ==
    [t \in 0..c.horizon |->
        IF t = 0 THEN 0
        ELSE IF (Block(t, c.shock_agg_transition) + 1) % 2 = 0 THEN 1 ELSE 0]

\* self.shocks_analysis_idtc
ShocksAnalysisIdtc(c) ==
    [t \in 0..c.horizon |->
        IF t = 0 THEN [i \in 0..(c.n_hh - 1) |-> 0]
        ELSE IF (Block(t, c.shock_idtc_transition) + 1) % 2 = 0
             THEN [i \in 0..(c.n_hh - 1) |-> 0]
             ELSE [i \in 0..(c.n_hh - 1) |-> 0]]

\* the instance that Capital_planner_ma(env_config) constructs
CPNew(c) ==
    [ timestep |-> None,
      obs_ |-> NoAttr,
      k_ss |-> KSS(c),
      max_s_ij |-> MaxSij(c),
      shocks_eval_agg |-> IF c.eval_mode THEN ShocksEvalAgg(c) ELSE NoAttr,
      shocks_eval_idtc |-> IF c.eval_mode THEN ShocksEvalIdtc(c) ELSE NoAttr,
      shocks_analysis_agg |->
          IF c.analysis_mode THEN ShocksAnalysisAgg(c) ELSE NoAttr,
      shocks_analysis_idtc |->
          IF c.analysis_mode THEN ShocksAnalysisIdtc(c) ELSE NoAttr ]

(***************************************************************************)
(* Capital_planner_ma.reset                                                *)
(***************************************************************************)
\* [x for z, x in enumerate(l) if z != i], built entry by entry up to n
RECURSIVE OthersTo(_, _, _)
OthersTo(l, i, n) ==
    IF n = 0 THEN Empty0
    ELSE IF n - 1 = i THEN OthersTo(l, i, n - 1)
         ELSE Concat0(OthersTo(l, i, n - 1), One0(l[n - 1]))

\* OwnFirst without the reordering: every household sees the global order
OwnFirstGlobalOrder(l, i) == l

\* [l[i]] + [x for z, x in enumerate(l) if z != i]
OwnFirst(l, i) == Concat0(One0(l[i]), OthersTo(l, i, Len0(l)))

\* [item for sublist in ll for item in sublist]
RECURSIVE FlattenTo(_, _)
FlattenTo(ll, n) ==
    IF n = 0 THEN Empty0 ELSE Concat0(FlattenTo(ll, n - 1), ll[n - 1])

Flatten(ll) == FlattenTo(ll, Len0(ll))

\* the list of lists whose inner list i holds the stocks of household i
PerHousehold(c, k) ==
    Eval0([i \in 0..(c.n_hh - 1) |->
             Eval0(Slice0(k, i * c.n_capital, i * c.n_capital + c.n_capital))])

\* Observations with the state of the next household put first
ObservationsNextFirst(c, k_ij, shocks_idtc, shock_agg) ==
    [i \in 0..(c.n_hh - 1) |->
        [ stocks |-> Flatten(OwnFirst(k_ij, (i + 1) % c.n_hh)),
          shocks_idtc |-> OwnFirst(shocks_idtc, (i + 1) % c.n_hh),
          shock_agg |-> shock_agg ]]

\* the dictionary of observations, one per household, each with its own
\* state first
Observations(c, k_ij, shocks_idtc, shock_agg) ==
    [i \in 0..(c.n_hh - 1) |->
        [ stocks |-> Flatten(OwnFirst(k_ij, i)),
          shocks_idtc |-> OwnFirst(shocks_idtc, i),
          shock_agg |-> shock_agg ]]

\* k_init of eval_mode and of analysis_mode
KInitFixed(c, e) ==
    [i \in 0..(c.n_hh * c.n_capital - 1) |->
        IF i % 2 = 0 THEN Mul(e.k_ss, 900) ELSE Mul(e.k_ss, 800)]

\* what the random module can return in reset(): the stocks are drawn from
\* the two ends of uniform(k_ss * 0.5, k_ss * 1.25); both kinds of shock are
\* drawn from range(len(shock_idtc_values))
ResetDraws(c, e) ==
    [ k : [0..(c.n_hh * c.n_capital - 1) -> {Mul(e.k_ss, 500), Mul(e.k_ss, 1250)}],
      idtc : [0..(c.n_hh - 1) -> 0..(Len0(c.shock_idtc_values) - 1)],
      agg : 0..(Len0(c.shock_idtc_values) - 1) ]

\* the initial global state that reset() chooses, by mode
CPInitial(c, e, draw) ==
    IF c.eval_mode
    THEN [ k |-> KInitFixed(c, e), key |-> 0,
           idtc |-> e.shocks_eval_idtc[0],
           agg |-> e.shocks_eval_agg[0] ]
    ELSE IF c.analysis_mode
    THEN [ k |-> KInitFixed(c, e), key |-> 0,
           idtc |-> e.shocks_analysis_idtc[0],
           agg |-> e.shocks_analysis_agg[0] ]
    ELSE [ k |-> draw.k, key |-> NoAttr,
           idtc |-> draw.idtc, agg |-> draw.agg ]

\* reset(): the instance afterwards and what the call returns
CPReset(c, e, draw) ==
    LET init == CPInitial(c, e, draw)
        k_ij_init == PerHousehold(c, init.k)
        obs == Observations(c, k_ij_init, init.idtc, init.agg)
    IN  [ env |-> [e EXCEPT !.timestep = 0, !.obs_ = obs],
          out |-> [ call |-> "reset", raised |-> "none", obs |-> obs,
                    rew |-> NoAttr, done |-> NoAttr, info |-> NoAttr,
                    loc |-> [ k_ij_new |-> k_ij_init,
                              schedule_key |-> init.key,
                              shocks_idtc_id_new |-> init.idtc,
                              shock_agg_id_new |-> init.agg ] ] ]

(***************************************************************************)
(* Capital_planner_ma.step                                                 *)
(***************************************************************************)
\* the values an action component takes in the model: the two ends and the
\* middle of Box(low=-1.0, high=1.0)
ActionValues == {0 - ONE, 0, ONE}

CPActions(c) ==
    [0..(c.n_hh - 1) -> [0..(c.n_capital - 1) -> ActionValues]]

\* Unsquash without the shift of the action to [0, 2]
UnsquashNoShift(e, a) == Mul(a \div 2, e.max_s_ij)

\* unsquash action
Unsquash(e, a) == Mul((a + ONE) \div 2, e.max_s_ij)

\* BudgetCorrect with the shares left as they were unsquashed
BudgetUncorrected(s_i) == s_i

\* s_ij[i] after the correction of a violated budget constraint
BudgetCorrect(s_i) ==
    IF Sum0(s_i) > ONE
    THEN [j \in DOMAIN s_i |-> Div(s_i[j], Sum0(s_i))]
    ELSE s_i

\* bgt_penalty_ind[i]
BudgetFlag(s_i) == IF Sum0(s_i) > ONE THEN 1 ELSE 0

\* k_bundle_i[i]: the product over j of k_ij[i][j] ** (1 / n_capital)
RECURSIVE BundleTo(_, _, _)
BundleTo(c, k_i, n) ==
    IF n = 0 THEN ONE
    ELSE Mul(BundleTo(c, k_i, n - 1), Pow(k_i[n - 1], ONE \div c.n_capital))

\* Utility with the logarithm taken of a consumption of zero as well
UtilityLogOfZero(c, c_i) ==
    IF c_i >= 0 THEN LogOf(c_i) ELSE Num(0 - c.bgt_penalty)

\* utility_i[i]
Utility(c, c_i) == IF c_i > 0 THEN LogOf(c_i) ELSE Num(0 - c.bgt_penalty)

\* the floor 0.0001 of the denominator of inv_ij, one unit of the model
InvFloor == 1

\* Reward with every household paid its own utility
RewardOwnUtility(utility_i, i) == Mean0(One0(utility_i[i]))

\* rew[f"hh_{i}"]
Reward(utility_i, i) == Mean0(utility_i)

\* DoneFlag one step late
DoneFlagLate(c, timestep) == ~ (timestep <= c.horizon)

\* done["__all__"]
DoneFlag(c, timestep) == ~ (timestep < c.horizon)

\* what random.choices can return in step(): an index of positive weight in
\* the row of the transition matrix of the current shock
StepDraws(c, shocks_idtc_id, shock_agg_id) ==
    [ idtc : { f \in [0..(c.n_hh - 1) -> 0..(Len0(c.shock_idtc_values) - 1)] :
                 \A i \in 0..(c.n_hh - 1) :
                     c.shock_idtc_transition[shocks_idtc_id[i]][f[i]] > 0 },
      agg : { x \in 0..(Len0(c.shock_agg_values) - 1) :
                 c.shock_agg_transition[shock_agg_id][x] > 0 } ]

\* ShockSource with eval_mode ignored
ShockSourceNoEval(c) == IF c.analysis_mode THEN "analysis" ELSE "random"

\* the source of the new shocks, by mode
ShockSource(c) ==
    IF c.eval_mode THEN "eval" ELSE IF c.analysis_mode THEN "analysis"
    ELSE "random"

\* ScheduleKey one behind: the entry of the timestep before
ScheduleKeyStale(e) == e.timestep - 1

\* the key with which step() indexes the schedules: self.timestep, after
\* self.timestep += 1
ScheduleKey(e) == e.timestep

\* shocks_idtc_id_new and shock_agg_id_new, and the key of the schedule
\* entry read for them; the schedules have the keys 0..horizon
NextShocks(c, e, draw) ==
    CASE ShockSource(c) = "eval" ->
            IF ScheduleKey(e) \in DOMAIN e.shocks_eval_idtc
            THEN [ raised |-> "none", key |-> ScheduleKey(e),
                   idtc |-> e.shocks_eval_idtc[ScheduleKey(e)],
                   agg |-> e.shocks_eval_agg[ScheduleKey(e)] ]
            ELSE [ raised |-> "KeyError" ]
      [] ShockSource(c) = "analysis" ->
            IF ScheduleKey(e) \in DOMAIN e.shocks_analysis_idtc
            THEN [ raised |-> "none", key |-> ScheduleKey(e),
                   idtc |-> e.shocks_analysis_idtc[ScheduleKey(e)],
                   agg |-> e.shocks_analysis_agg[ScheduleKey(e)] ]
            ELSE [ raised |-> "KeyError" ]
      [] ShockSource(c) = "random" ->
            [ raised |-> "none", key |-> NoAttr,
              idtc |-> draw.idtc, agg |-> draw.agg ]

\* CPInfo filled in eval_mode as well
CPInfoInEval(c, l) ==
    IF c.analysis_mode = FALSE /\ c.eval_mode = FALSE
    THEN Empty0
    ELSE [i \in 0..(c.n_hh - 1) |->
            IF i = 0
            THEN [ savings |-> l.s_ij, reward |-> Mean0(l.utility_i),
                   income |-> l.y_i, consumption |-> l.c_i,
                   bgt_penalty |-> l.bgt_penalty_ind, capital |-> l.k_ij,
                   capital_new |-> l.k_ij_new ]
            ELSE [ savings |-> l.s_ij[i], reward |-> Mean0(l.utility_i),
                   income |-> l.y_i[i], consumption |-> l.c_i[i],
                   bgt_penalty |-> l.bgt_penalty_ind[i], capital |-> l.k_ij[i],
                   capital_new |-> l.k_ij_new[i] ]]

\* info
CPInfo(c, l) ==
    IF c.analysis_mode = FALSE
    THEN Empty0
    ELSE [i \in 0..(c.n_hh - 1) |->
            IF i = 0
            THEN [ savings |-> l.s_ij, reward |-> Mean0(l.utility_i),
                   income |-> l.y_i, consumption |-> l.c_i,
                   bgt_penalty |-> l.bgt_penalty_ind, capital |-> l.k_ij,
                   capital_new |-> l.k_ij_new ]
            ELSE [ savings |-> l.s_ij[i], reward |-> Mean0(l.utility_i),
                   income |-> l.y_i[i], consumption |-> l.c_i[i],
                   bgt_penalty |-> l.bgt_penalty_ind[i], capital |-> l.k_ij[i],
                   capital_new |-> l.k_ij_new[i] ]]

\* the result of a call that raised
Raised(call, what) ==
    [ call |-> call, raised |-> what, obs |-> NoAttr, rew |-> NoAttr,
      done |-> NoAttr, info |-> NoAttr, loc |-> NoAttr ]

\* NextStock with the sign of the stock carried over slipped
NextStockSignSlip(c, k, inv) == inv - Mul(k, c.params.delta)

\* k_ij_new[i][j]
NextStock(c, k, inv) == Mul(k, ONE - c.params.delta) + inv

\* the local variables of step() up to the new stocks; e is the instance
\* after self.timestep += 1
CPLocals(c, e, action_dict) ==
    LET HH == 0..(c.n_hh - 1)
        CAP == 0..(c.n_capital - 1)
        k == e.obs_[0].stocks
        shocks_idtc_id == e.obs_[0].shocks_idtc
        shock_agg_id == e.obs_[0].shock_agg
        shocks_idtc ==
            Eval0([i \in HH |-> c.shock_idtc_values[shocks_idtc_id[i]]])
        shock_agg == c.shock_agg_values[shock_agg_id]
        s_raw == Eval0([i \in HH |->
                    Eval0([j \in CAP |-> Unsquash(e, action_dict[i][j])])])
        bgt_penalty_ind == Eval0([i \in HH |-> BudgetFlag(s_raw[i])])
        s_ij == Eval0([i \in HH |-> Eval0(BudgetCorrect(s_raw[i]))])
        k_ij == PerHousehold(c, k)
        k_bundle_i == Eval0([i \in HH |-> BundleTo(c, k_ij[i], c.n_capital)])
        y_i == Eval0([i \in HH |->
                   Mul(Mul(shocks_idtc[i], shock_agg),
                       Pow(k_bundle_i[i], c.params.alpha))])
        c_i == Eval0([i \in HH |-> Mul(y_i[i], ONE - Sum0(s_ij[i]))])
        utility_i == Eval0([i \in HH |-> Utility(c, c_i[i])])
        inv_exp_ij == Eval0([i \in HH |->
                         Eval0([j \in CAP |-> Mul(s_ij[i][j], y_i[i])])])
        inv_exp_j == Eval0([j \in CAP |->
                        Sum0([i \in HH |-> inv_exp_ij[i][j]])])
        inv_j == Eval0([j \in CAP |->
                     Sqrt(Mul(Div(2 * ONE, c.params.phi), inv_exp_j[j]))])
        inv_ij == Eval0([i \in HH |-> Eval0([j \in CAP |->
                     Mul(Div(inv_exp_ij[i][j], Max(inv_exp_j[j], InvFloor)),
                         inv_j[j])])])
        k_ij_new == Eval0([i \in HH |-> Eval0([j \in CAP |->
                     NextStock(c, k_ij[i][j], inv_ij[i][j])])])
    IN  [ action_dict |-> action_dict,
          shocks_idtc_id |-> shocks_idtc_id, shock_agg_id |-> shock_agg_id,
          s_raw |-> s_raw, s_ij |-> s_ij, bgt_penalty_ind |-> bgt_penalty_ind,
          k_ij |-> k_ij, y_i |-> y_i, c_i |-> c_i, utility_i |-> utility_i,
          k_ij_new |-> k_ij_new ]

\* whether the lookups shock_idtc_values[shocks_idtc_id[i]] and
\* shock_agg_values[shock_agg_id] at the head of step() find an entry
ShockIdsInRange(c, e) ==
    /\ \A i \in 0..(c.n_hh - 1) :
          e.obs_[0].shocks_idtc[i] \in DOMAIN c.shock_idtc_values
    /\ e.obs_[0].shock_agg \in DOMAIN c.shock_agg_values

\* step(action_dict): the instance afterwards and what the call returns
CPStep(c, e0, action_dict, draw) ==
    IF e0.timestep = None
    THEN [ env |-> e0, out |-> Raised("step", "TypeError") ]
    ELSE
    LET e == [e0 EXCEPT !.timestep = e0.timestep + 1]
        l == CPLocals(c, e, action_dict)
        nxt == NextShocks(c, e, draw)
    IN  IF ~ ShockIdsInRange(c, e)
        THEN [ env |-> e, out |-> Raised("step", "IndexError") ]
        ELSE IF nxt.raised # "none"
        THEN [ env |-> e, out |-> Raised("step", nxt.raised) ]
        ELSE
        LET obs == Observations(c, l.k_ij_new, nxt.idtc, nxt.agg)
            rew == [i \in 0..(c.n_hh - 1) |-> Reward(l.utility_i, i)]
            done == DoneFlag(c, e.timestep)
        IN  [ env |-> [e EXCEPT !.obs_ = obs],
              out |-> [ call |-> "step", raised |-> "none", obs |-> obs,
                        rew |-> rew, done |-> done, info |-> CPInfo(c, l),
                        loc |-> [ action_dict |-> l.action_dict,
                                  shocks_idtc_id |-> l.shocks_idtc_id,
                                  shock_agg_id |-> l.shock_agg_id,
                                  s_raw |-> l.s_raw, s_ij |-> l.s_ij,
                                  bgt_penalty_ind |-> l.bgt_penalty_ind,
                                  k_ij |-> l.k_ij, y_i |-> l.y_i,
                                  c_i |-> l.c_i, utility_i |-> l.utility_i,
                                  k_ij_new |-> l.k_ij_new,
                                  schedule_key |-> nxt.key,
                                  shocks_idtc_id_new |-> nxt.idtc,
                                  shock_agg_id_new |-> nxt.agg ] ] ]

(***************************************************************************)
(* DiffDemandDiscrete                                                      *)
(***************************************************************************)
DDName == "DiffDemandDiscrete"

\* len(agents_dict) of the configurations explored
DDAgents == {1, 2, 3}

\* gridpoints of the configurations explored
DDGridpoints == {3}

\* the types of the gridpoints value of the configurations explored: 3,
\* 3.0 and "3"
DDGridTypes == {"int", "float", "str"}

DDAllConfigs ==
    { [ cls |-> DDName,
        n_agents |-> n,
        gridpoints |-> g,
        gridpoints_type |-> gt,
        finite_periods |-> fp,
        n_periods |-> np,
        cost |-> [i \in 0..(n - 1) |-> ONE],
        values |-> [i \in 0..(n - 1) |-> 2 * ONE],
        ext_demand |-> 0,
        substitution |-> 250,
        lower_price |-> [i \in 0..(n - 1) |-> ONE],
        higher_price |-> [i \in 0..(n - 1) |-> 2 * ONE] ] :
      n \in DDAgents, g \in DDGridpoints, gt \in DDGridTypes,
      fp \in BOOLEAN, np \in 1..(MaxT - 1) }

\* n_periods is not read unless finite_periods is set, and neither is read
\* by the constructor
DDConfigs ==
    { c \in DDAllConfigs :
        /\ c.finite_periods \/ c.n_periods = 1
        /\ c.gridpoints_type = "int" \/ ~ c.finite_periods }

\* the instance that DiffDemandDiscrete(mkt_config, agents_dict) constructs
DDNew(c) == [ num_steps |-> 0, obs |-> NoAttr ]

\* no instance: the constructor raised
NoInstance == Empty0

\* the exception of the check of gridpoints, and an exception raised by
\* Discrete or MultiDiscrete of gym.spaces
GridpointError == "TypeError: gridpoint must be integer"

SpaceError == "raised by gym.spaces"

\* whether Discrete(gridpoints) and MultiDiscrete([gridpoints, gridpoints])
\* return: they do for an int; for a float that depends on the version of
\* gym (n >= 0 is asserted by some, isinstance(n, int) by others); for a
\* str they raise
DDSpacesAccept(c) ==
    CASE c.gridpoints_type = "int" -> {TRUE}
      [] c.gridpoints_type = "float" -> {TRUE, FALSE}
      [] c.gridpoints_type = "str" -> {FALSE}

\* DDConstruct without the check of gridpoints
DDConstructUnchecked(c, accepted) ==
    IF ~ accepted
    THEN [ env |-> NoInstance, out |-> Raised("__init__", SpaceError) ]
    ELSE [ env |-> DDNew(c), out |-> Raised("__init__", "none") ]

\* DiffDemandDiscrete(mkt_config, agents_dict): the spaces are built from
\* gridpoints first, and gridpoints is checked last
DDConstruct(c, accepted) ==
    IF ~ accepted
    THEN [ env |-> NoInstance, out |-> Raised("__init__", SpaceError) ]
    ELSE IF c.gridpoints_type # "int"
    THEN [ env |-> NoInstance, out |-> Raised("__init__", GridpointError) ]
    ELSE [ env |-> DDNew(c), out |-> Raised("__init__", "none") ]

\* np.uint8(x)
Uint8(x) == x % 256

\* reset()
DDReset(c, e) ==
    LET obs == [i \in 0..(c.n_agents - 1) |->
                   [j \in 0..(c.n_agents - 1) |-> Uint8(c.gridpoints \div 2)]]
    IN  [ env |-> [e EXCEPT !.num_steps = 0, !.obs = obs],
          out |-> [ call |-> "reset", raised |-> "none", obs |-> obs,
                    rew |-> NoAttr, done |-> NoAttr, info |-> NoAttr,
                    loc |-> NoAttr ] ]

\* the orders in which the keys agent_0..agent_{N-1} can be inserted
DDKeyOrders(c) ==
    { o \in [0..(c.n_agents - 1) -> 0..(c.n_agents - 1)] :
        \A p, q \in 0..(c.n_agents - 1) : p # q => o[p] # o[q] }

\* the action dictionaries of the model: the keys agent_0..agent_{N-1}, each
\* once, in any order of insertion; entry p is <<i, a>> for the p-th
\* inserted key agent_i and its action a
DDActionDicts(c) ==
    { [p \in 0..(c.n_agents - 1) |-> <<o[p], a[p]>>] :
        o \in DDKeyOrders(c),
        a \in [0..(c.n_agents - 1) -> 0..(c.gridpoints - 1)] }

\* list(action_dict.values())
DictValues(action_dict) == [p \in DOMAIN action_dict |-> action_dict[p][2]]

\* self.obs after the loops of step()
DDObservations(c, actions) ==
    [i \in 0..(c.n_agents - 1) |->
        [j \in 0..(c.n_agents - 1) |-> Uint8(actions[j])]]

\* prices[i]
DDPrice(c, actions, i) ==
    c.lower_price[i]
    + Mul(c.higher_price[i] - c.lower_price[i],
          Div(actions[i] * ONE, (c.gridpoints - 1) * ONE))

\* rewards_list[i], with math.e ** x kept symbolic: the margin, the exponent
\* of the numerator and the exponents of the terms of the denominator
DDReward(c, prices, i) ==
    [ margin |-> prices[i] - c.cost[i],
      notnorm |-> Div(c.values[i] - prices[i], c.substitution),
      denom_ext |-> Div(c.ext_demand, c.substitution),
      denom_sum |-> [j \in 0..(c.n_agents - 1) |->
                        Div(c.values[j] - prices[j], c.substitution)] ]

\* done
DDDone(c, e) ==
    IF c.finite_periods
    THEN [ agents |-> [i \in 0..(c.n_agents - 1) |->
                          e.num_steps >= c.n_periods],
           all |-> e.num_steps >= c.n_periods ]
    ELSE [ agents |-> Empty0, all |-> FALSE ]

\* DDStep with the prices lowered to lower_price once the counter is past 0
DDStepStateful(c, e, action_dict) ==
    LET actions == DictValues(action_dict)
        obs == DDObservations(c, actions)
        prices == [i \in 0..(c.n_agents - 1) |->
                      IF e.num_steps > 0 THEN c.lower_price[i]
                      ELSE DDPrice(c, actions, i)]
        rew == [i \in 0..(c.n_agents - 1) |-> DDReward(c, prices, i)]
    IN  [ env |-> [e EXCEPT !.obs = obs, !.num_steps = e.num_steps + 1],
          out |-> [ call |-> "step", raised |-> "none", obs |-> obs,
                    rew |-> rew, done |-> DDDone(c, e), info |-> prices,
                    loc |-> [ action_dict |-> action_dict,
                              actions |-> actions ] ] ]

\* step(action_dict)
DDStep(c, e, action_dict) ==
    LET actions == DictValues(action_dict)
        obs == DDObservations(c, actions)
        prices == [i \in 0..(c.n_agents - 1) |-> DDPrice(c, actions, i)]
        rew == [i \in 0..(c.n_agents - 1) |-> DDReward(c, prices, i)]
    IN  [ env |-> [e EXCEPT !.obs = obs, !.num_steps = e.num_steps + 1],
          out |-> [ call |-> "step", raised |-> "none", obs |-> obs,
                    rew |-> rew, done |-> DDDone(c, e), info |-> prices,
                    loc |-> [ action_dict |-> action_dict,
                              actions |-> actions ] ] ]

(***************************************************************************)
(* Townsend                                                                *)
(***************************************************************************)
TWName == "Townsend"

\* n_industries of the configurations explored
TWIndustries == {1, 2, 3}

TWConfigs ==
    { [ cls |-> TWName,
        horizon |-> h,
        n_industries |-> n,
        rental_shock |-> FALSE,
        eval_mode |-> ev,
        analysis_mode |-> an,
        simul_mode |-> FALSE,
        max_savings |-> 600,
        k_ss |-> ONE,
        max_price |-> 60 * ONE,
        max_cap |-> 100 * ONE,
        rew_mean |-> 0,
        rew_std |-> ONE,
        normalize |-> FALSE,
        params |-> [ delta |-> 0, alpha |-> ONE, beta |-> 990, phi |-> ONE,
                     A |-> ONE, tfp |-> ONE, rho |-> 800, theta_0 |-> 0 ] ] :
      h \in 1..(MaxT - 1), n \in TWIndustries, ev \in BOOLEAN,
      an \in BOOLEAN }

\* the attributes that __init__ assigns when normalize is off
TWAttributes ==
    { "env_config", "horizon", "n_industries", "rental_shock", "eval_mode",
      "analysis_mode", "seed_eval", "seed_analysis", "simul_mode",
      "max_savings", "k_ss", "max_price", "max_cap", "rew_mean", "rew_std",
      "normalize", "params", "shocks_agg_seeded", "shocks_idtc_seeded",
      "n_actions", "action_space", "n_obs_stock", "n_obs_price",
      "observation_space", "timestep", "norm_ind" }

\* the values a normal draw takes in the model
TWShockValues == {0 - ONE, 0, ONE}

\* the seeded schedules: one fixed draw per timestep 0..horizon
TWSeeded(c) ==
    [ agg |-> [t \in 0..c.horizon |-> IF t % 2 = 0 THEN ONE ELSE 0 - ONE],
      idtc |-> [t \in 0..c.horizon |->
                   [i \in 0..(c.n_industries - 1) |->
                       IF (t + i) % 2 = 0 THEN 0 ELSE ONE]] ]

\* the instance that Townsend(env_config) constructs
TWNew(c) ==
    [ timestep |-> None,
      attrs |-> TWAttributes,
      norm_ind |-> FALSE,
      shocks_agg_seeded |-> TWSeeded(c).agg,
      shocks_idtc_seeded |-> TWSeeded(c).idtc,
      obs_ |-> NoAttr,
      obs_global |-> NoAttr ]

\* what the random modules can return in one call of reset() or step()
TWDraws(c) ==
    [ k : [0..(c.n_industries - 1) -> {Mul(c.k_ss, 500), c.k_ss * 30}],
      idtc : [0..(c.n_industries - 1) -> TWShockValues],
      agg : TWShockValues ]

\* the observations: the own stock, then the prices with the own one first
TWObservations(c, k, prices) ==
    [i \in 0..(c.n_industries - 1) |->
        Concat0(One0(k[i]), OwnFirst(prices, i))]

\* reset(): timestep is set, and then every mode builds k_init over
\* range(self.n_industries * self.n_firms)
TWReset(c, e0, draw) ==
    LET e == [e0 EXCEPT !.timestep = 0]
        IND == 0..(c.n_industries - 1)
    IN  IF "n_firms" \notin e.attrs
        THEN [ env |-> e, out |-> Raised("reset", "AttributeError") ]
        ELSE
        LET fixed == c.eval_mode \/ c.analysis_mode
            k_init == IF fixed
                      THEN [i \in IND |->
                              IF i % 2 = 0 THEN Mul(c.k_ss, 900)
                              ELSE Mul(c.k_ss, 800)]
                      ELSE draw.k
            shock_idtc_init == IF fixed THEN e.shocks_idtc_seeded[0]
                               ELSE draw.idtc
            shock_agg_init == IF fixed THEN e.shocks_agg_seeded[0]
                              ELSE draw.agg
            theta_init == c.params.theta_0
            u_init == [i \in IND |-> theta_init + shock_idtc_init[i]]
            y_init == [i \in IND |->
                          Mul(c.params.tfp, Pow(k_init[i], c.params.alpha))]
            p_init == [i \in IND |->
                          c.max_price - Mul(c.params.A, y_init[i]) + u_init[i]]
            obs == TWObservations(c, k_init, p_init)
        IN  [ env |-> [e EXCEPT !.obs_ = obs,
                                !.attrs = e.attrs \cup {"obs_", "obs_global"},
                                !.obs_global =
                                    [ k |-> k_init, prices |-> p_init,
                                      theta |-> theta_init,
                                      shock_agg |-> shock_agg_init,
                                      shock_idtc |-> shock_idtc_init ]],
              out |-> [ call |-> "reset", raised |-> "none", obs |-> obs,
                        rew |-> NoAttr, done |-> NoAttr, info |-> NoAttr,
                        loc |-> NoAttr ] ]

\* s[i]: unsquash action
TWUnsquash(c, a) == Mul((a + ONE) \div 2, c.max_savings)

\* the actions of the model, one component per firm
TWActions(c) == [0..(c.n_industries - 1) -> ActionValues]

\* what step() computes from the stocks k, the demand shocks u, the rental
\* shocks and the actions when norm_ind is off: the savings rates, the
\* output, the prices, the next stocks, the utility and the reward
TWOutcome(c, k, u, shock_rent, action_dict) ==
    LET IND == 0..(c.n_industries - 1)
        s == [i \in IND |-> TWUnsquash(c, action_dict[i])]
        y == [i \in IND |-> Mul(c.params.tfp, Pow(k[i], c.params.alpha))]
        prices == [i \in IND |->
                      Max(c.max_price - Mul(c.params.A, y[i]) + u[i], 0)]
        k_new == [i \in IND |->
                     Min(Mul(k[i], ONE - c.params.delta) + Mul(s[i], y[i]),
                         c.max_cap)]
        utility == [i \in IND |->
                       Mul(Mul(prices[i], ONE - s[i]), y[i])
                       - Mul(shock_rent[i], k[i])
                       - Mul(c.params.phi,
                             Mul(k_new[i] - k[i], k_new[i] - k[i]))]
        rew == [i \in IND |-> Div(utility[i] - c.rew_mean, c.rew_std)]
    IN  [ s |-> s, y |-> y, prices |-> prices, k_new |-> k_new,
          utility |-> utility, rew |-> rew ]

\* step(action_dict)
TWStep(c, e0, action_dict, draw) ==
    IF e0.timestep = None
    THEN [ env |-> e0, out |-> Raised("step", "TypeError") ]
    ELSE
    LET e == [e0 EXCEPT !.timestep = e0.timestep + 1]
        IND == 0..(c.n_industries - 1)
        fixed == c.eval_mode \/ c.analysis_mode
    IN  IF "obs_global" \notin e.attrs
        THEN [ env |-> e, out |-> Raised("step", "AttributeError") ]
        ELSE IF fixed /\ e.timestep \notin DOMAIN e.shocks_idtc_seeded
        THEN [ env |-> e, out |-> Raised("step", "KeyError") ]
        ELSE
        LET k == e.obs_global.k
            shock_idtc == IF fixed THEN e.shocks_idtc_seeded[e.timestep]
                          ELSE draw.idtc
            shock_agg == IF fixed THEN e.shocks_agg_seeded[e.timestep]
                         ELSE draw.agg
            shock_rent == [i \in IND |-> 0]
            theta == Mul(c.params.rho, e.obs_global.theta) + shock_agg
            u == [i \in IND |-> theta + shock_idtc[i]]
            o == TWOutcome(c, k, u, shock_rent, action_dict)
            s == o.s
            y == o.y
            prices == o.prices
            k_new == o.k_new
            obs == TWObservations(c, k_new, prices)
            utility == o.utility
            rew == o.rew
            done == ~ (e.timestep < c.horizon)
            info == IF ~ c.analysis_mode /\ ~ c.simul_mode THEN Empty0
                    ELSE [i \in IND |->
                            IF i = 0
                            THEN [ savings |-> s, reward |-> utility,
                                   income |-> y, capital |-> k,
                                   capital_new |-> k_new, prices |-> prices ]
                            ELSE [ savings |-> s[i], reward |-> utility[i],
                                   income |-> y[i], capital |-> k[i],
                                   capital_new |-> k_new[i],
                                   prices |-> prices[i] ]]
        IN  [ env |-> [e EXCEPT !.obs_ = obs,
                                !.obs_global =
                                    [ k |-> k_new, prices |-> prices,
                                      theta |-> theta,
                                      shock_agg |-> shock_agg,
                                      shock_idtc |-> shock_idtc ]],
              out |-> [ call |-> "step", raised |-> "none", obs |-> obs,
                        rew |-> rew, done |-> done, info |-> info,
                        loc |-> [ action_dict |-> action_dict, s |-> s,
                                  y |-> y, k |-> k, k_new |-> k_new,
                                  prices |-> prices, utility |-> utility ] ] ]

(***************************************************************************)
(* The state machine: one instance and its caller                          *)
(***************************************************************************)
Configs == CPConfigs \cup DDConfigs \cup TWConfigs

New(c) ==
    CASE c.cls = CPName -> CPNew(c)
      [] c.cls = DDName -> DDNew(c)
      [] c.cls = TWName -> TWNew(c)

Constructed ==
    [ call |-> "__init__", raised |-> "none", obs |-> NoAttr, rew |-> NoAttr,
      done |-> NoAttr, info |-> NoAttr, loc |-> NoAttr ]

\* what the constructor can do with a configuration
Constructions(c) ==
    IF c.cls = DDName
    THEN { DDConstruct(c, accepted) : accepted \in DDSpacesAccept(c) }
    ELSE { [ env |-> New(c), out |-> Constructed ] }

\* a call needs an instance
HasInstance == ~ (out.call = "__init__" /\ out.raised # "none")

Init ==
    /\ cfg \in Configs
    /\ \E r \in Constructions(cfg) : env = r.env /\ out = r.out
    /\ nsteps = None
    /\ env2 = NoAttr
    /\ out2 = NoAttr
    /\ sync = FALSE
    /\ rng = NoAttr
    /\ envAlone = NoAttr
    /\ rngAlone = NoAttr

\* one more call of step() since the last reset()
Counted(n) == IF n = None THEN None ELSE n + 1

\* the draws of reset(): none is made in eval_mode and analysis_mode
CPResetDrawsOf(c, e) ==
    IF ShockSource(c) = "random" THEN ResetDraws(c, e) ELSE {NoAttr}

\* the draws of step(): none is made in eval_mode and analysis_mode, none
\* before the first reset(), and none by a call that raises before it draws
CPStepDrawsOf(c, e) ==
    IF ShockSource(c) = "random" /\ e.timestep # None /\ ShockIdsInRange(c, e)
    THEN StepDraws(c, e.obs_[0].shocks_idtc, e.obs_[0].shock_agg)
    ELSE {NoAttr}

\* step() is explored up to one call past the horizon
CPStepExplored(c, e) == e.timestep <= c.horizon

CPResetCall ==
    /\ cfg.cls = CPName
    /\ \E draw \in CPResetDrawsOf(cfg, env) :
          LET r == CPReset(cfg, env, draw)
          IN  env' = r.env /\ out' = r.out
    /\ nsteps' = 0
    /\ UNCHANGED <<cfg, env2, out2, sync>>
    /\ UNCHANGED pairVars

CPStepCall ==
    /\ cfg.cls = CPName
    /\ CPStepExplored(cfg, env)
    /\ \E action_dict \in CPActions(cfg), draw \in CPStepDrawsOf(cfg, env) :
          LET r == CPStep(cfg, env, action_dict, draw)
          IN  env' = r.env /\ out' = r.out
    /\ nsteps' = Counted(nsteps)
    /\ UNCHANGED <<cfg, env2, out2, sync>>
    /\ UNCHANGED pairVars

DDResetCall ==
    /\ cfg.cls = DDName
    /\ HasInstance
    /\ LET r == DDReset(cfg, env)
       IN  env' = r.env /\ out' = r.out
    /\ nsteps' = 0
    /\ UNCHANGED <<cfg, env2, out2, sync>>
    /\ UNCHANGED pairVars

DDStepCall ==
    /\ cfg.cls = DDName
    /\ HasInstance
    /\ env.num_steps < MaxT
    /\ \E action_dict \in DDActionDicts(cfg) :
          LET r == DDStep(cfg, env, action_dict)
          IN  env' = r.env /\ out' = r.out
    /\ nsteps' = Counted(nsteps)
    /\ UNCHANGED <<cfg, env2, out2, sync>>
    /\ UNCHANGED pairVars

\* the draws of a call of the Townsend instance: none is made by a call
\* that raises before it draws, and none in eval_mode and analysis_mode
TWDrawsOf(c, needed) ==
    IF needed \in env.attrs /\ ~ (c.eval_mode \/ c.analysis_mode)
    THEN TWDraws(c) ELSE {NoAttr}

TWResetCall ==
    /\ cfg.cls = TWName
    /\ \E draw \in TWDrawsOf(cfg, "n_firms") :
          LET r == TWReset(cfg, env, draw)
          IN  env' = r.env /\ out' = r.out
    /\ nsteps' = 0
    /\ UNCHANGED <<cfg, env2, out2, sync>>
    /\ UNCHANGED pairVars

TWStepCall ==
    /\ cfg.cls = TWName
    /\ env.timestep < MaxT
    /\ \E action_dict \in TWActions(cfg),
          draw \in TWDrawsOf(cfg, "obs_global") :
          LET r == TWStep(cfg, env, action_dict, draw)
          IN  env' = r.env /\ out' = r.out
    /\ nsteps' = Counted(nsteps)
    /\ UNCHANGED <<cfg, env2, out2, sync>>
    /\ UNCHANGED pairVars

Next ==
    \/ CPResetCall
    \/ CPStepCall
    \/ DDResetCall
    \/ DDStepCall
    \/ TWResetCall
    \/ TWStepCall

Spec == Init /\ [][Next]_vars

(***************************************************************************)
(* Two Capital_planner_ma instances in eval_mode: the second instance may  *)
(* first run an episode of its own; then both are reset and fed the same   *)
(* actions, while each makes its own draws from the random module          *)
(***************************************************************************)
TwinInit ==
    /\ cfg \in { c \in CPConfigs : c.eval_mode }
    /\ env = CPNew(cfg)
    /\ out = Constructed
    /\ nsteps = None
    /\ env2 = CPNew(cfg)
    /\ out2 = Constructed
    /\ sync = FALSE
    /\ rng = NoAttr
    /\ envAlone = NoAttr
    /\ rngAlone = NoAttr

\* the second instance alone, before the first one is used: reset()
EarlierReset ==
    /\ env.timestep = None
    /\ \E draw \in CPResetDrawsOf(cfg, env2) :
          LET r == CPReset(cfg, env2, draw)
          IN  env2' = r.env /\ out2' = r.out
    /\ UNCHANGED <<cfg, env, out, nsteps, sync>>
    /\ UNCHANGED pairVars

\* the second instance alone, before the first one is used: step()
EarlierStep ==
    /\ env.timestep = None
    /\ CPStepExplored(cfg, env2)
    /\ \E action_dict \in CPActions(cfg), draw \in CPStepDrawsOf(cfg, env2) :
          LET r == CPStep(cfg, env2, action_dict, draw)
          IN  env2' = r.env /\ out2' = r.out
    /\ UNCHANGED <<cfg, env, out, nsteps, sync>>
    /\ UNCHANGED pairVars

\* reset() on both instances
BothReset ==
    /\ \E draw \in CPResetDrawsOf(cfg, env),
          draw2 \in CPResetDrawsOf(cfg, env2) :
          LET r == CPReset(cfg, env, draw)
              r2 == CPReset(cfg, env2, draw2)
          IN  env' = r.env /\ out' = r.out /\ env2' = r2.env /\ out2' = r2.out
    /\ nsteps' = 0
    /\ sync' = TRUE
    /\ UNCHANGED cfg
    /\ UNCHANGED pairVars

\* step() on both instances, with the same action
BothStep ==
    /\ sync
    /\ CPStepExplored(cfg, env)
    /\ CPStepExplored(cfg, env2)
    /\ \E action_dict \in CPActions(cfg), draw \in CPStepDrawsOf(cfg, env),
          draw2 \in CPStepDrawsOf(cfg, env2) :
          LET r == CPStep(cfg, env, action_dict, draw)
              r2 == CPStep(cfg, env2, action_dict, draw2)
          IN  env' = r.env /\ out' = r.out /\ env2' = r2.env /\ out2' = r2.out
    /\ nsteps' = Counted(nsteps)
    /\ UNCHANGED <<cfg, sync>>
    /\ UNCHANGED pairVars

TwinNext ==
    \/ EarlierReset
    \/ EarlierStep
    \/ BothReset
    \/ BothStep

SpecTwin == TwinInit /\ [][TwinNext]_vars

(***************************************************************************)
(* Two Capital_planner_ma instances of one configuration mapping in one    *)
(* process, their calls interleaved in any order.  Both draw from the      *)
(* generator of the random module, whose state is advanced by every draw.  *)
(* Beside them runs the first instance as it is without the second one:    *)
(* the same calls, and the generator started in the same state.            *)
(***************************************************************************)
\* the states of the generator in the model: a cycle
RngPeriod == 4

\* the number the generator returns in state q, as the half of [0, 1) it
\* falls into
RngBit(q) == IF q % RngPeriod < RngPeriod \div 2 THEN 0 ELSE 1

\* the state of the generator after n draws
RngAfter(q, n) == (q + n) % RngPeriod

\* the draws of reset() in random mode, in the order of the calls:
\* random.uniform for each stock, random.choices for each household's
\* shock, random.choices for the aggregate shock
ResetDrawsFrom(c, e, q) ==
    LET nk == c.n_hh * c.n_capital
    IN  [ k |-> Eval0([i \in 0..(nk - 1) |->
                    IF RngBit(q + i) = 0 THEN Mul(e.k_ss, 500)
                    ELSE Mul(e.k_ss, 1250)]),
          idtc |-> Eval0([i \in 0..(c.n_hh - 1) |-> RngBit(q + nk + i)]),
          agg |-> RngBit(q + nk + c.n_hh) ]

\* the draws of step() in random mode: random.choices for each household's
\* shock and for the aggregate shock (every weight of the configurations
\* explored is 0.5)
StepDrawsFrom(c, e, q) ==
    [ idtc |-> Eval0([i \in 0..(c.n_hh - 1) |-> RngBit(q + i)]),
      agg |-> RngBit(q + c.n_hh) ]

\* reset() with the generator in state q
CPResetWith(c, e, q) ==
    IF ShockSource(c) = "random"
    THEN [ r |-> CPReset(c, e, ResetDrawsFrom(c, e, q)),
           rng |-> RngAfter(q, c.n_hh * c.n_capital + c.n_hh + 1) ]
    ELSE [ r |-> CPReset(c, e, NoAttr), rng |-> q ]

\* step() with the generator in state q
CPStepWith(c, e, action_dict, q) ==
    IF ShockSource(c) = "random" /\ e.timestep # None
    THEN [ r |-> CPStep(c, e, action_dict, StepDrawsFrom(c, e, q)),
           rng |-> RngAfter(q, c.n_hh + 1) ]
    ELSE [ r |-> CPStep(c, e, action_dict, NoAttr), rng |-> q ]

\* the configurations explored with two instances: one household, one
\* capital good and the shortest horizon, in every mode
PairConfigs ==
    { c \in CPConfigs :
        /\ c.n_hh * c.n_capital = 1 /\ c.horizon = 1
        /\ Len0(c.shock_idtc_values) = 2 }

\* the actions explored with two instances: the middle of the box
PairActions(c) == [0..(c.n_hh - 1) -> [0..(c.n_capital - 1) -> {0}]]

PairInit ==
    /\ cfg \in PairConfigs
    /\ env = CPNew(cfg)
    /\ out = Constructed
    /\ nsteps = None
    /\ env2 = CPNew(cfg)
    /\ out2 = Constructed
    /\ sync = FALSE
    /\ rng \in 0..(RngPeriod - 1)
    /\ envAlone = CPNew(cfg)
    /\ rngAlone = rng

\* reset() on the first instance
FirstReset ==
    /\ \E w \in {CPResetWith(cfg, env, rng)},
          a \in {CPResetWith(cfg, envAlone, rngAlone)} :
          /\ env' = w.r.env /\ out' = w.r.out /\ rng' = w.rng
          /\ envAlone' = a.r.env /\ rngAlone' = a.rng
    /\ nsteps' = 0
    /\ UNCHANGED <<cfg, env2, out2, sync>>

\* step() on the first instance
FirstStep ==
    /\ CPStepExplored(cfg, env)
    /\ \E action_dict \in PairActions(cfg) :
          \E w \in {CPStepWith(cfg, env, action_dict, rng)},
             a \in {CPStepWith(cfg, envAlone, action_dict, rngAlone)} :
             /\ env' = w.r.env /\ out' = w.r.out /\ rng' = w.rng
             /\ envAlone' = a.r.env /\ rngAlone' = a.rng
    /\ nsteps' = Counted(nsteps)
    /\ UNCHANGED <<cfg, env2, out2, sync>>

\* reset() on the second instance
SecondReset ==
    /\ \E w \in {CPResetWith(cfg, env2, rng)} :
          env2' = w.r.env /\ out2' = w.r.out /\ rng' = w.rng
    /\ UNCHANGED <<cfg, env, out, nsteps, sync, envAlone, rngAlone>>

\* step() on the second instance
SecondStep ==
    /\ CPStepExplored(cfg, env2)
    /\ \E action_dict \in PairActions(cfg) :
          \E w \in {CPStepWith(cfg, env2, action_dict, rng)} :
             env2' = w.r.env /\ out2' = w.r.out /\ rng' = w.rng
    /\ UNCHANGED <<cfg, env, out, nsteps, sync, envAlone, rngAlone>>

PairNext ==
    \/ FirstReset
    \/ FirstStep
    \/ SecondReset
    \/ SecondStep

SpecPair == PairInit /\ [][PairNext]_vars

(***************************************************************************)
(* The payoff of Townsend.step as a function of the stocks, the shocks and *)
(* the actions it is computed from                                         *)
(***************************************************************************)
\* the configurations explored: one and two industries, random shocks
PayoffConfigs ==
    { c \in TWConfigs :
        /\ c.n_industries <= 2 /\ c.horizon = 1
        /\ ~ c.eval_mode /\ ~ c.analysis_mode }

\* the stocks, the demand shocks u and the rental shocks explored
PayoffStocks == {ONE, 2 * ONE}

PayoffShocks == {0, ONE}

PayoffInit ==
    /\ cfg \in PayoffConfigs
    /\ env = TWNew(cfg)
    /\ out = Constructed
    /\ nsteps = None
    /\ env2 = NoAttr
    /\ out2 = NoAttr
    /\ sync = FALSE
    /\ rng = NoAttr
    /\ envAlone = NoAttr
    /\ rngAlone = NoAttr

\* the payoff of one joint action in one state
PayoffApply ==
    /\ \E k \in [0..(cfg.n_industries - 1) -> PayoffStocks],
          u \in [0..(cfg.n_industries - 1) -> PayoffShocks],
          shock_rent \in [0..(cfg.n_industries - 1) -> PayoffShocks],
          action_dict \in TWActions(cfg) :
          \E o \in {TWOutcome(cfg, k, u, shock_rent, action_dict)} :
             out' = [ call |-> "payoff", raised |-> "none", k |-> k,
                      shock_rent |-> shock_rent, s |-> o.s, y |-> o.y,
                      prices |-> o.prices, k_new |-> o.k_new,
                      utility |-> o.utility, rew |-> o.rew ]
    /\ UNCHANGED <<cfg, env, nsteps, env2, out2, sync>>
    /\ UNCHANGED pairVars

SpecPayoff == PayoffInit /\ [][PayoffApply]_vars

(***************************************************************************)
(* The unsquashing of an action component, in each class that has one:     *)
(* Capital_planner_ma, Townsend and Durable_sgm                            *)
(*   (src/marketsai/markets/durable_sgm.py)                                *)
(***************************************************************************)
DSName == "Durable_sgm"

\* max_saving of the Durable_sgm configurations explored: the default 0.2,
\* and 1.0
DSConfigs == { [ cls |-> DSName, max_saving |-> ms ] : ms \in {200, 1000} }

\* the instance that Durable_sgm(env_config) constructs
DSNew(c) == [ obs_ |-> NoAttr ]

\* s in Durable_sgm.step
DSUnsquash(c, a) == Mul((a + ONE) \div 2, c.max_saving)

\* the action components explored: -1, -0.9, ..., 1
UnsquashInputs == { 100 * n - ONE : n \in 0..20 }

\* the configurations explored: those of Capital_planner_ma and Townsend
\* with eval_mode alone and horizon 1, and those of Durable_sgm
UnsquashConfigs ==
    { c \in CPConfigs \cup TWConfigs :
        c.eval_mode /\ ~ c.analysis_mode /\ c.horizon = 1 }
    \cup DSConfigs

\* the unsquashed value and the bound it is scaled to, by class
UnsquashOf(c, e, a) ==
    CASE c.cls = CPName -> [ s |-> Unsquash(e, a), max_bound |-> e.max_s_ij ]
      [] c.cls = TWName -> [ s |-> TWUnsquash(c, a), max_bound |-> c.max_savings ]
      [] c.cls = DSName -> [ s |-> DSUnsquash(c, a), max_bound |-> c.max_saving ]

UnsquashInit ==
    /\ cfg \in UnsquashConfigs
    /\ env = CASE cfg.cls = CPName -> CPNew(cfg)
                [] cfg.cls = TWName -> TWNew(cfg)
                [] cfg.cls = DSName -> DSNew(cfg)
    /\ out = Constructed
    /\ nsteps = None
    /\ env2 = NoAttr
    /\ out2 = NoAttr
    /\ sync = FALSE
    /\ rng = NoAttr
    /\ envAlone = NoAttr
    /\ rngAlone = NoAttr

\* the unsquashing of one action component
UnsquashApply ==
    /\ \E a \in UnsquashInputs :
          LET u == UnsquashOf(cfg, env, a)
          IN  out' = [ call |-> "unsquash", raised |-> "none", a |-> a,
                       s |-> u.s, max_bound |-> u.max_bound ]
    /\ UNCHANGED <<cfg, env, nsteps, env2, out2, sync>>
    /\ UNCHANGED pairVars

SpecUnsquash == UnsquashInit /\ [][UnsquashApply]_vars

(***************************************************************************)
(* Properties                                                              *)
(***************************************************************************)
\* the last call was on a Capital_planner_ma instance and returned
CPReturned ==
    cfg.cls = CPName /\ out.call \in {"reset", "step"} /\ out.raised = "none"

\* the last call was a step() of a Capital_planner_ma instance that returned
CPStepReturned ==
    cfg.cls = CPName /\ out.call = "step" /\ out.raised = "none"

\* C1: in Capital_planner_ma, the k-th step() after reset() returns, for
\* every k <= horizon, and its done["__all__"] is false for k < horizon and
\* true for k = horizon.  A step() whose shock lookup is out of range (it
\* raises IndexError before anything else is computed) returns no flag.
C1_DoneExactlyAtHorizon ==
    (cfg.cls = CPName /\ out.call = "step" /\ nsteps # None
        /\ nsteps <= cfg.horizon /\ out.raised # "IndexError")
    => (out.raised = "none" /\ out.done = (nsteps = cfg.horizon))

C1_Witness ==
    /\ CPStepReturned
    /\ cfg.horizon >= 2
    /\ nsteps = cfg.horizon
    /\ out.done = TRUE

\* C2: in DiffDemandDiscrete with finite_periods, the done map of the k-th
\* step() after reset() (every agent's entry and "__all__") is true exactly
\* when k = n_periods, and false for every k < n_periods.
C2_DoneAtNPeriods ==
    (cfg.cls = DDName /\ cfg.finite_periods /\ out.call = "step"
        /\ nsteps # None /\ nsteps <= cfg.n_periods)
    => /\ out.done.all = (nsteps = cfg.n_periods)
       /\ \A i \in 0..(cfg.n_agents - 1) :
             out.done.agents[i] = (nsteps = cfg.n_periods)

\* C3: a Townsend instance of the default configuration is runnable: in
\* every mode reset() completes, sets timestep to 0 and returns an
\* observation for every firm_0..firm_{n_industries-1}.
C3_ResetCompletes ==
    (cfg.cls = TWName /\ out.call = "reset")
    => /\ out.raised = "none"
       /\ env.timestep = 0
       /\ DOMAIN out.obs = 0..(cfg.n_industries - 1)

\* C4: in Capital_planner_ma, after reset() and after every step(), the
\* observation of household i holds the stocks of household i first and
\* then those of the other households in index order with i left out, the
\* idiosyncratic shocks in the same order, and the one aggregate shock; the
\* observations of all households have the same lengths.
C4_OwnStateFirst ==
    CPReturned =>
        LET n == cfg.n_hh
            m == cfg.n_capital
            g == out.loc
            hh(i, b) == IF b = 0 THEN i ELSE IF b <= i THEN b - 1 ELSE b
        IN  /\ DOMAIN out.obs = 0..(n - 1)
            /\ env.obs_ = out.obs
            /\ \A i \in 0..(n - 1) :
                  /\ DOMAIN out.obs[i].stocks = 0..(n * m - 1)
                  /\ \A p \in 0..(n * m - 1) :
                        out.obs[i].stocks[p] =
                            g.k_ij_new[hh(i, p \div m)][p % m]
                  /\ DOMAIN out.obs[i].shocks_idtc = 0..(n - 1)
                  /\ \A b \in 0..(n - 1) :
                        out.obs[i].shocks_idtc[b] =
                            g.shocks_idtc_id_new[hh(i, b)]
                  /\ out.obs[i].shock_agg = g.shock_agg_id_new

C4_Witness ==
    /\ CPStepReturned
    /\ cfg.n_hh = 3
    /\ \A i, z \in 0..2 :
          i # z => out.loc.k_ij_new[i] # out.loc.k_ij_new[z]

\* C5: in DiffDemandDiscrete, after every step() the observation of agent i
\* begins with the price index that agent i chose, followed by the price
\* indices of the other agents in index order with i left out.
C5_OwnPriceFirst ==
    (cfg.cls = DDName /\ out.call = "step")
    => LET n == cfg.n_agents
           chosen == [i \in 0..(n - 1) |->
                        LET p == CHOOSE q \in 0..(n - 1) :
                                     out.loc.action_dict[q][1] = i
                        IN  out.loc.action_dict[p][2]]
           hh(i, b) == IF b = 0 THEN i ELSE IF b <= i THEN b - 1 ELSE b
       IN  \A i \in 0..(n - 1) :
             /\ DOMAIN out.obs[i] = 0..(n - 1)
             /\ \A b \in 0..(n - 1) : out.obs[i][b] = chosen[hh(i, b)]

C7_RewardIsPenalty ==
    CPStepReturned =>
        \A i \in 0..(cfg.n_hh - 1) :
            out.loc.c_i[i] <= 0 =>
                \A z \in DOMAIN out.rew[i].mean_of :
                    out.rew[i].mean_of[z] = Num(0 - cfg.bgt_penalty)

\* C7 as amended: whenever c_i <= 0 the utility of household i is exactly
\* -bgt_penalty and no logarithm; the logarithm is taken only of a c_i > 0;
\* and the reward returned is the mean of the utilities of all households.
C7_UtilityIsPenalty ==
    CPStepReturned =>
        \A i \in 0..(cfg.n_hh - 1) :
            /\ out.loc.c_i[i] <= 0 =>
                  out.loc.utility_i[i] = Num(0 - cfg.bgt_penalty)
            /\ out.loc.utility_i[i].kind = "log" =>
                  (out.loc.c_i[i] > 0
                     /\ out.loc.utility_i[i].arg = out.loc.c_i[i])
            /\ out.rew[i].mean_of = out.loc.utility_i

C7_Witness ==
    /\ CPStepReturned
    /\ cfg.n_hh = 2
    /\ out.loc.c_i[0] <= 0
    /\ out.loc.c_i[1] > 0

\* C8: in Capital_planner_ma, every step() returns a reward for each of
\* hh_0..hh_{n_hh-1}, every one of them the mean of the utilities of all
\* households of that step, so that no two households differ in reward.
C8_RewardIsMeanUtility ==
    CPStepReturned =>
        /\ DOMAIN out.rew = 0..(cfg.n_hh - 1)
        /\ \A i \in 0..(cfg.n_hh - 1) :
              /\ out.rew[i].mean_of = out.loc.utility_i
              /\ DOMAIN out.rew[i].mean_of = 0..(cfg.n_hh - 1)
              /\ \A z \in 0..(cfg.n_hh - 1) : out.rew[i] = out.rew[z]

C8_Witness ==
    /\ CPStepReturned
    /\ cfg.n_hh >= 2
    /\ out.loc.utility_i[0] # out.loc.utility_i[1]

\* C9: two episodes of Capital_planner_ma in eval_mode that are fed the same
\* actions (on two instances of one configuration, one of which may have run
\* an episode before) return the same initial observation and the same
\* observation, reward, done and info at every step.
C9_EvalDeterministic ==
    sync => (out = out2 /\ env.obs_ = env2.obs_ /\ env.timestep = env2.timestep)

C9_Witness ==
    /\ sync
    /\ out.call = "step"
    /\ out.raised = "none"
    /\ cfg.horizon >= 2
    /\ nsteps = cfg.horizon
    /\ cfg.n_hh >= 2

\* C10: in Capital_planner_ma in analysis_mode with eval_mode off, at every
\* timestep 0..horizon the idiosyncratic shock index of every household and
\* the aggregate shock index in the observation equal their value at
\* timestep 0.
C10_AnalysisShocksConstant ==
    (CPReturned /\ cfg.analysis_mode /\ ~ cfg.eval_mode)
    => \A i \in 0..(cfg.n_hh - 1) :
          /\ \A b \in 0..(cfg.n_hh - 1) :
                out.obs[i].shocks_idtc[b] = env.shocks_analysis_idtc[0][b]
          /\ out.obs[i].shock_agg = env.shocks_analysis_agg[0]

\* the schedules of the mode of a Capital_planner_ma instance in eval_mode
\* or analysis_mode
CPSchedule ==
    IF cfg.eval_mode
    THEN [ idtc |-> env.shocks_eval_idtc, agg |-> env.shocks_eval_agg ]
    ELSE [ idtc |-> env.shocks_analysis_idtc, agg |-> env.shocks_analysis_agg ]

\* C11: in Capital_planner_ma in eval_mode or analysis_mode, reset() reads
\* entry 0 of the shock schedule and the k-th step() after it, for every
\* k <= horizon, returns and reads entry k and no other, so that the key
\* read grows by 1 with every step and no entry is read twice before the
\* next reset().
C11_ScheduleKeyIsStepCount ==
    (cfg.cls = CPName /\ (cfg.eval_mode \/ cfg.analysis_mode)
        /\ nsteps # None /\ nsteps <= cfg.horizon)
    => /\ out.raised = "none"
       /\ out.call = "reset" => nsteps = 0
       /\ out.loc.schedule_key = nsteps
       /\ env.timestep = nsteps
       /\ out.loc.shocks_idtc_id_new = CPSchedule.idtc[nsteps]
       /\ out.loc.shock_agg_id_new = CPSchedule.agg[nsteps]

C11_Witness ==
    /\ CPStepReturned
    /\ cfg.analysis_mode
    /\ ~ cfg.eval_mode
    /\ nsteps = 2
    /\ out.loc.schedule_key = 2
    /\ out.loc.shock_agg_id_new # env.shocks_analysis_agg[1]

\* C12: in Capital_planner_ma, step() returns an empty info when
\* analysis_mode is off; when it is on, info has an entry for every
\* household with savings, reward, income, consumption, bgt_penalty, capital
\* and capital_new, the entry of hh_0 holding the collections over all
\* households and the entry of every other household its own values.
C12_InfoByMode ==
    CPStepReturned =>
        LET g == out.loc
            keys == { "savings", "reward", "income", "consumption",
                      "bgt_penalty", "capital", "capital_new" }
        IN  IF ~ cfg.analysis_mode
            THEN DOMAIN out.info = {}
            ELSE /\ DOMAIN out.info = 0..(cfg.n_hh - 1)
                 /\ \A i \in 0..(cfg.n_hh - 1) : DOMAIN out.info[i] = keys
                 /\ out.info[0].savings = g.s_ij
                 /\ out.info[0].income = g.y_i
                 /\ out.info[0].consumption = g.c_i
                 /\ out.info[0].bgt_penalty = g.bgt_penalty_ind
                 /\ out.info[0].capital = g.k_ij
                 /\ out.info[0].capital_new = g.k_ij_new
                 /\ \A i \in 0..(cfg.n_hh - 1) :
                       out.info[i].reward = out.rew[i]
                 /\ \A i \in 1..(cfg.n_hh - 1) :
                       /\ out.info[i].savings = g.s_ij[i]
                       /\ out.info[i].income = g.y_i[i]
                       /\ out.info[i].consumption = g.c_i[i]
                       /\ out.info[i].bgt_penalty = g.bgt_penalty_ind[i]
                       /\ out.info[i].capital = g.k_ij[i]
                       /\ out.info[i].capital_new = g.k_ij_new[i]

C12_Witness ==
    /\ CPStepReturned
    /\ cfg.analysis_mode
    /\ cfg.n_hh = 2
    /\ DOMAIN out.info = 0..1
    /\ out.info[0].capital_new = out.loc.k_ij_new
    /\ out.info[1].capital_new = out.loc.k_ij_new[1]
    /\ out.loc.k_ij_new[0] # out.loc.k_ij_new[1]

\* C13 as stated: constructing DiffDemandDiscrete with a gridpoints that is
\* not an int raises TypeError("gridpoint must be integer") and produces no
\* instance; with an int the construction succeeds.
C13_GridpointTypeError ==
    (cfg.cls = DDName /\ out.call = "__init__")
    => IF cfg.gridpoints_type = "int"
       THEN out.raised = "none" /\ env = DDNew(cfg)
       ELSE out.raised = GridpointError /\ env = NoInstance

\* C13 as amended: constructing DiffDemandDiscrete with a gridpoints that is
\* not an int raises and produces no instance; the exception is
\* TypeError("gridpoint must be integer") if the space constructors, which
\* are called with gridpoints before the check, returned, and otherwise the
\* exception of the space constructor; with an int the construction
\* succeeds.
C13_NoInstanceUnlessInt ==
    cfg.cls = DDName
    => IF cfg.gridpoints_type = "int"
       THEN /\ HasInstance
            /\ out.call = "__init__" => (out.raised = "none" /\ env = DDNew(cfg))
       ELSE /\ out.call = "__init__"
            /\ out.raised \in {GridpointError, SpaceError}
            /\ cfg.gridpoints_type = "str" => out.raised = SpaceError
            /\ env = NoInstance

C13_Witness ==
    /\ cfg.cls = DDName
    /\ cfg.gridpoints_type = "float"
    /\ out.call = "__init__"
    /\ out.raised = GridpointError
    /\ env = NoInstance

\* C14: two Capital_planner_ma instances built from the same configuration
\* share no mutable state: after any interleaving of reset() and step() on
\* the two, the timestep, the observation and the shock schedules of the
\* first instance are what its own calls alone leave them.
C14_InstancesIndependent ==
    (cfg.cls = CPName /\ env.timestep # None)
    => /\ env.timestep = envAlone.timestep
       /\ env.obs_ = envAlone.obs_
       /\ env.shocks_eval_agg = envAlone.shocks_eval_agg
       /\ env.shocks_eval_idtc = envAlone.shocks_eval_idtc
       /\ env.shocks_analysis_agg = envAlone.shocks_analysis_agg
       /\ env.shocks_analysis_idtc = envAlone.shocks_analysis_idtc

\* C15: in Townsend, every step() after reset() returns, the next stock of
\* every firm is min(k_old * (1 - delta) + s * y, ceiling), and so every
\* stock in the observation and in the global state that step() produces
\* is at most the ceiling max_cap.
C15_CapitalAtMostCeiling ==
    (cfg.cls = TWName /\ out.call = "step" /\ nsteps # None
        /\ nsteps <= cfg.horizon)
    => /\ out.raised = "none"
       /\ \A i \in 0..(cfg.n_industries - 1) :
             /\ out.loc.k_new[i] =
                    Min(Mul(out.loc.k[i], ONE - cfg.params.delta)
                           + Mul(out.loc.s[i], out.loc.y[i]),
                        cfg.max_cap)
             /\ out.loc.k_new[i] <= cfg.max_cap
             /\ out.obs[i][0] = out.loc.k_new[i]
             /\ env.obs_global.k[i] = out.loc.k_new[i]

\* C16: in Capital_planner_ma, with every action component in [-1, 1] and
\* delta in [0, 1], every capital stock is non-negative after reset() and
\* after every step(), the steps with a corrected budget included.
C16_CapitalNonNegative ==
    CPReturned =>
        /\ \A i \in 0..(cfg.n_hh - 1) : \A j \in 0..(cfg.n_capital - 1) :
              out.loc.k_ij_new[i][j] >= 0
        /\ \A i \in 0..(cfg.n_hh - 1) :
              \A p \in 0..(cfg.n_hh * cfg.n_capital - 1) :
                 env.obs_[i].stocks[p] >= 0

C16_Witness ==
    /\ CPStepReturned
    /\ nsteps = 2
    /\ out.loc.bgt_penalty_ind[0] = 1
    /\ out.loc.c_i[0] <= 0
    /\ out.loc.k_ij_new[0][0] > 0

\* C17: unsquashing maps every action component a in [-1, 1] to
\* (a + 1) / 2 * max_bound, which lies in [0, max_bound]: -1 gives 0, 0
\* gives max_bound / 2 and 1 gives max_bound; max_bound is
\* 1.5 * max_savings / n_capital in Capital_planner_ma, max_savings in
\* Townsend and max_saving in Durable_sgm.
C17_UnsquashInBounds ==
    out.call = "unsquash" =>
        /\ out.s = Mul((out.a + ONE) \div 2, out.max_bound)
        /\ out.s >= 0
        /\ out.s <= out.max_bound
        /\ out.a = 0 - ONE => out.s = 0
        /\ out.a = 0 => 2 * out.s = out.max_bound
        /\ out.a = ONE => out.s = out.max_bound
        /\ cfg.cls = CPName =>
              2 * cfg.n_capital * out.max_bound = 3 * cfg.max_savings
        /\ cfg.cls = TWName => out.max_bound = cfg.max_savings
        /\ cfg.cls = DSName => out.max_bound = cfg.max_saving

C17_Witness ==
    /\ out.call = "unsquash"
    /\ cfg.cls = CPName
    /\ cfg.n_capital = 2
    /\ out.a = 0
    /\ out.s > 0
    /\ 2 * out.s = out.max_bound

\* C18: DiffDemandDiscrete.step is a pure function of the joint action: the
\* rewards and the prices in info returned for an action dictionary are
\* those that a freshly constructed instance returns for it, whatever the
\* counter num_steps, the observation before and the calls of reset(); the
\* instance keeps no state but the last observation and the counter.
C18_StepIsPure ==
    (cfg.cls = DDName /\ out.call = "step")
    => LET fresh == DDStep(cfg, DDNew(cfg), out.loc.action_dict).out
       IN  /\ out.raised = "none"
           /\ out.rew = fresh.rew
           /\ out.info = fresh.info
           /\ DOMAIN env = {"num_steps", "obs"}

C18_Witness ==
    /\ cfg.cls = DDName
    /\ out.call = "step"
    /\ cfg.n_agents = 2
    /\ nsteps # None
    /\ env.num_steps >= 2
    /\ out.loc.actions[0] # out.loc.actions[1]
    /\ out.info[0] # cfg.lower_price[0]

\* C19: every Capital_planner_ma instance is in exactly one of the modes
\* random, evaluation and analysis, whatever eval_mode and analysis_mode
\* are: the mode whose schedule gives the shocks of reset() and step() is
\* the mode that decides about info (filled in analysis, empty otherwise).
C19_OneModeGovernsAll ==
    CPStepReturned =>
        LET filled == DOMAIN out.info # {}
            key == env.timestep
        IN  /\ filled = (ShockSource(cfg) = "analysis")
            /\ filled =>
                  /\ out.loc.shocks_idtc_id_new = env.shocks_analysis_idtc[key]
                  /\ out.loc.shock_agg_id_new = env.shocks_analysis_agg[key]

\* C20: in DiffDemandDiscrete.step the price of every agent i is the linear
\* map of the action_dict entry of agent_i on the grid: action 0 gives
\* lower_price[i], action gridpoints - 1 gives higher_price[i], consecutive
\* actions differ by (higher_price[i] - lower_price[i]) / (gridpoints - 1),
\* the price lies in [lower_price[i], higher_price[i]], and info of agent_i
\* is that price.
C20_PriceLinearInOwnAction ==
    (cfg.cls = DDName /\ out.call = "step")
    => LET n == cfg.n_agents
           g == cfg.gridpoints
           chosen == [i \in 0..(n - 1) |->
                        LET p == CHOOSE q \in 0..(n - 1) :
                                     out.loc.action_dict[q][1] = i
                        IN  out.loc.action_dict[p][2]]
       IN  \A i \in 0..(n - 1) :
             LET lo == cfg.lower_price[i]
                 hi == cfg.higher_price[i]
             IN  /\ out.info[i] * (g - 1) = lo * (g - 1) + (hi - lo) * chosen[i]
                 /\ chosen[i] = 0 => out.info[i] = lo
                 /\ chosen[i] = g - 1 => out.info[i] = hi
                 /\ lo <= out.info[i] /\ out.info[i] <= hi

\* C21: in eval_mode of Capital_planner_ma, with L = 1 / transition[0][1],
\* the aggregate shock index at timestep t (0 <= t <= horizon) is 0 when
\* floor(t / L) is even and 1 when it is odd; the idiosyncratic shock index
\* of household i is 1 - (i mod 2) in even blocks and i mod 2 in odd blocks,
\* with L of the idiosyncratic transition matrix; households with adjacent
\* indices hold opposite idiosyncratic shock indices.  This holds of the
\* schedules built at construction and of the shocks of every reset() and
\* step() that returns.
C21_EvalScheduleAlternates ==
    (cfg.cls = CPName /\ cfg.eval_mode)
    => LET L_agg == (ONE * ONE) \div cfg.shock_agg_transition[0][1]
           L_idtc == (ONE * ONE) \div cfg.shock_idtc_transition[0][1]
           odd(t, L) == ((t * ONE) \div L) % 2 = 1
           agg(t) == IF odd(t, L_agg) THEN 1 ELSE 0
           idtc(t, i) == IF odd(t, L_idtc) THEN i % 2 ELSE 1 - (i % 2)
       IN  /\ DOMAIN env.shocks_eval_agg = 0..cfg.horizon
           /\ DOMAIN env.shocks_eval_idtc = 0..cfg.horizon
           /\ \A t \in 0..cfg.horizon :
                 /\ env.shocks_eval_agg[t] = agg(t)
                 /\ DOMAIN env.shocks_eval_idtc[t] = 0..(cfg.n_hh - 1)
                 /\ \A i \in 0..(cfg.n_hh - 1) :
                       env.shocks_eval_idtc[t][i] = idtc(t, i)
                 /\ \A i \in 0..(cfg.n_hh - 2) :
                       env.shocks_eval_idtc[t][i]
                           # env.shocks_eval_idtc[t][i + 1]
           /\ (out.call \in {"reset", "step"} /\ out.raised = "none")
                 => /\ env.timestep \in 0..cfg.horizon
                    /\ out.loc.shock_agg_id_new = agg(env.timestep)
                    /\ \A i \in 0..(cfg.n_hh - 1) :
                          out.loc.shocks_idtc_id_new[i] = idtc(env.timestep, i)

C21_Witness ==
    /\ CPStepReturned
    /\ cfg.eval_mode
    /\ cfg.n_hh = 2
    /\ cfg.shock_idtc_transition[0][1] = ONE
    /\ env.timestep = 2
    /\ out.loc.shock_agg_id_new = 1
    /\ out.loc.shocks_idtc_id_new[0] = 1
    /\ out.loc.shocks_idtc_id_new[1] = 0
    /\ env.shocks_eval_idtc[1][0] = 0

\* C22: Townsend.step computes the payoff of every industry i as in the class
\* documentation: price times output, minus the rental rate times k, minus
\* the adjustment cost (phi / 2) * (k_new - k)^2; the reward of firm_i is
\* that payoff of firm i, shifted by rew_mean and divided by rew_std.
C22_PayoffAsDocumented ==
    (cfg.cls = TWName /\ out.call = "payoff")
    => \A i \in 0..(cfg.n_industries - 1) :
          LET d == out.k_new[i] - out.k[i]
              payoff == Mul(out.prices[i], out.y[i])
                        - Mul(out.shock_rent[i], out.k[i])
                        - Mul(cfg.params.phi \div 2, Mul(d, d))
          IN  /\ out.utility[i] = payoff
              /\ out.rew[i] = Div(payoff - cfg.rew_mean, cfg.rew_std)

\* C23: in random mode of Capital_planner_ma, for shock_idtc_values and
\* shock_agg_values of any lengths, reset() and every step() after it
\* return, and every idiosyncratic shock index of the observation is an
\* index into shock_idtc_values and the aggregate shock index is an index
\* into shock_agg_values.
C23_ShockIndicesValid ==
    (cfg.cls = CPName /\ ShockSource(cfg) = "random" /\ nsteps # None
        /\ out.call \in {"reset", "step"})
    => /\ out.raised = "none"
       /\ \A i \in 0..(cfg.n_hh - 1) :
             \A b \in DOMAIN out.obs[i].shocks_idtc :
                 out.obs[i].shocks_idtc[b] \in DOMAIN cfg.shock_idtc_values
       /\ \A i \in 0..(cfg.n_hh - 1) :
             out.obs[i].shock_agg \in DOMAIN cfg.shock_agg_values

\* C24: in Capital_planner_ma the observation stored for hh_0 is the global
\* state in the order of the household indices, and the stocks and shock
\* indices that a step() reads from it are the k_ij_new and the new shock
\* indices of the step() before it, or the initial values of the reset()
\* before it, for every n_hh and n_capital.
C24_StateRoundTrips ==
    [][ (cfg.cls = CPName /\ out'.call \in {"reset", "step"}
            /\ out'.raised = "none")
        => /\ env'.obs_[0].stocks = Flatten(out'.loc.k_ij_new)
           /\ env'.obs_[0].shocks_idtc = out'.loc.shocks_idtc_id_new
           /\ env'.obs_[0].shock_agg = out'.loc.shock_agg_id_new
           /\ (out'.call = "step" /\ out.call \in {"reset", "step"}
                  /\ out.raised = "none")
                 => /\ out'.loc.k_ij = out.loc.k_ij_new
                    /\ out'.loc.shocks_idtc_id = out.loc.shocks_idtc_id_new
                    /\ out'.loc.shock_agg_id = out.loc.shock_agg_id_new ]_vars

C24_Witness ==
    /\ CPStepReturned
    /\ cfg.n_hh = 2
    /\ nsteps = 2
    /\ out.loc.k_ij[0] # out.loc.k_ij[1]
    /\ out.loc.k_ij_new[0] # out.loc.k_ij_new[1]
    /\ out.loc.shocks_idtc_id[0] # out.loc.shocks_idtc_id[1]
    /\ env.obs_[0].stocks = Flatten(out.loc.k_ij_new)

\* C25: in Capital_planner_ma, in every mode, once a step() has returned
\* done["__all__"] true, the next step() without a reset() in between also
\* returns, with done["__all__"] true; a reset() sets timestep to 0, and
\* the step() after it returns done["__all__"] false when horizon > 1.
C25_DoneIsAbsorbing ==
    [][ cfg.cls = CPName
        => /\ (out.call = "step" /\ out.raised = "none" /\ out.done
                  /\ out'.call = "step")
                 => (out'.raised = "none" /\ out'.done)
           /\ out'.call = "reset" => env'.timestep = 0
           /\ (out.call = "reset" /\ out'.call = "step" /\ cfg.horizon > 1)
                 => (out'.raised = "none" /\ ~ out'.done) ]_vars

\* C26: DiffDemandDiscrete.step attributes each action to the agent whose
\* key carries it: the observation, the rewards and the prices in info that
\* step() returns for an action dictionary are those it returns for the
\* same entries inserted in the order agent_0..agent_{N-1}, whatever the
\* order of insertion.
C26_InsertionOrderIrrelevant ==
    (cfg.cls = DDName /\ out.call = "step")
    => LET n == cfg.n_agents
           by_key == [i \in 0..(n - 1) |->
                        LET p == CHOOSE q \in 0..(n - 1) :
                                     out.loc.action_dict[q][1] = i
                        IN  <<i, out.loc.action_dict[p][2]>>]
           in_order == DDStep(cfg, DDNew(cfg), by_key).out
       IN  /\ out.obs = in_order.obs
           /\ out.rew = in_order.rew
           /\ out.info = in_order.info

====
